---- MODULE Spec2Model ----
(***************************************************************************)
(* Model of buildBook.py: the table-of-contents parser (parse_list_items), *)
(* the transclusion expander (add_examples_to_content) and the tree        *)
(* renderer (process_structure) driven by main().                          *)
(*                                                                         *)
(* Strings are sequences of one-character strings, so that strip, replace, *)
(* startswith and the regular expressions are computed character by        *)
(* character, as Python computes them.                                     *)
(***************************************************************************)
EXTENDS Integers, Sequences, FiniteSets, TLC

\* ------------------------------------------------------------------------
\* Bounds of the model
\* ------------------------------------------------------------------------

\* Largest number of parts a body given to add_examples_to_content is made of.
MaxParts == 3

\* Largest number of list items of an outline given to main().
MaxNodes == 4

\* Largest number of items of such an outline that are not a plain link to
\* a page of the export.
MaxSpecial == 1

\* Largest number of list items of an outline given to parse_list_items alone.
MaxItems == 3

\* ------------------------------------------------------------------------
\* Strings
\* ------------------------------------------------------------------------

Min(S) == CHOOSE x \in S : \A y \in S : x <= y

\* The element of a one-element set. A value that is used several times is
\* bound once as  Only({ e(v) : v \in {value} }).
Only(S) == CHOOSE x \in S : TRUE

\* str.isspace of one character (the whitespace str.strip removes, \s of re)
IsSpace(c) == c \in {" ", "\n", "\t"}

\* str.startswith
StartsWith(s, p) == Len(s) >= Len(p) /\ SubSeq(s, 1, Len(p)) = p

\* does `old` occur in s at position i
OccursAt(s, i, old) ==
    /\ i + Len(old) - 1 <= Len(s)
    /\ SubSeq(s, i, i + Len(old) - 1) = old

RECURSIVE LStrip(_)
LStrip(s) == IF s # <<>> /\ IsSpace(Head(s)) THEN LStrip(Tail(s)) ELSE s

RECURSIVE RStrip(_)
RStrip(s) ==
    IF s # <<>> /\ IsSpace(s[Len(s)]) THEN RStrip(SubSeq(s, 1, Len(s) - 1)) ELSE s

\* str.strip()
Strip(s) == RStrip(LStrip(s))

\* A flag per character of a string: 1 for a character put there by a
\* substitution, 0 for a character of the original text.
Flags(s, b) == [k \in 1..Len(s) |-> b]

\* str.replace(old, new) for a non-empty `old`, scanning from position i:
\* occurrences are taken left to right and do not overlap. g carries the
\* flag of each character of s; `hit` tells whether a replaced occurrence
\* contained a character that an earlier substitution had inserted.
RECURSIVE ReplaceFrom(_, _, _, _, _)
ReplaceFrom(s, g, i, old, new) ==
    IF i > Len(s) THEN [s |-> <<>>, g |-> <<>>, hit |-> FALSE]
    ELSE IF OccursAt(s, i, old)
    THEN Only({ [s   |-> new \o rest.s,
                 g   |-> Flags(new, 1) \o rest.g,
                 hit |-> rest.hit \/ \E k \in i..(i + Len(old) - 1) : g[k] = 1]
                : rest \in { ReplaceFrom(s, g, i + Len(old), old, new) } })
    ELSE Only({ [s |-> <<s[i]>> \o rest.s, g |-> <<g[i]>> \o rest.g, hit |-> rest.hit]
                : rest \in { ReplaceFrom(s, g, i + 1, old, new) } })

Replace(s, old, new) == ReplaceFrom(s, Flags(s, 0), 1, old, new).s

\* ------------------------------------------------------------------------
\* add_examples_to_content
\* ------------------------------------------------------------------------

Open  == <<"{", "{", ":">>
Close == <<"}", "}">>

\* the text f"{{{{:{example_title}}}}}"
Marker(title) == Open \o title \o Close

\* the positions q at which the lazy group (.+?) of a match starting at p can
\* end: at least one character, none of them a newline, then "}}"
GroupEnds(s, p) ==
    { q \in (p + 4)..(Len(s) - 1) :
        /\ OccursAt(s, q, Close)
        /\ \A k \in (p + 3)..(q - 1) : s[k] # "\n" }

\* the positions from i on at which the pattern \{\{:(.+?)\}\} matches
MatchStarts(s, i) ==
    { p \in i..Len(s) : OccursAt(s, p, Open) /\ GroupEnds(s, p) # {} }

\* pattern.findall(content): the groups of the non-overlapping matches, left
\* to right
RECURSIVE FindAllFrom(_, _)
FindAllFrom(s, i) ==
    IF MatchStarts(s, i) = {} THEN <<>>
    ELSE Only({ Only({ <<SubSeq(s, p + 3, q - 1)>> \o FindAllFrom(s, q + 2)
                       : q \in { Min(GroupEnds(s, p)) } })
                : p \in { Min(MatchStarts(s, i)) } })

FindAll(s) == FindAllFrom(s, 1)

\* The result of session.get(...).json()["parse"]["text"]["*"] followed by
\* the extraction and conversion of the table: a fetch stub maps a title to
\* the fragment, or to Raised when the request or the lookup fails.
Raised == <<"!raised">>

FetchExample(stub, title) ==
    IF title \in DOMAIN stub THEN stub[title] ELSE <<"F">>


\* One loop iteration of add_examples_to_content on the current content:
\* the fetch of the stripped title and the replacement of its marker text.
ExpandOne(cont, g, match, stub) ==
    LET example_title   == Strip(match)
        example_content == FetchExample(stub, example_title)
    IN Only({ [raised  |-> example_content = Raised,
               title   |-> example_title,
               content |-> r.s,
               flags   |-> r.g,
               hit     |-> r.hit]
              : r \in { ReplaceFrom(cont, g, 1, Marker(example_title), example_content) } })

\* add_examples_to_content(content) as a whole: the loop over the matches
\* found in the content it was given. An exception of a fetch ends it.
RECURSIVE ExpandFrom(_, _, _, _, _)
ExpandFrom(cont, ms, i, fetches, stub) ==
    IF i > Len(ms) THEN [raised |-> FALSE, content |-> cont, fetched |-> fetches]
    ELSE Only({ IF one.raised
                THEN [raised |-> TRUE, content |-> cont,
                      fetched |-> Append(fetches, one.title)]
                ELSE ExpandFrom(one.content, ms, i + 1, Append(fetches, one.title), stub)
                : one \in { ExpandOne(cont, Flags(cont, 0), ms[i], stub) } })

AddExamplesToContent(cont, stub) ==
    Only({ ExpandFrom(c, FindAll(c), 1, <<>>, stub) : c \in { cont } })

\* ------------------------------------------------------------------------
\* parse_list_items
\* ------------------------------------------------------------------------

WIKI_BASE_URL == <<"https://style.miraheze.org">>

\* The parsed HTML of the table of contents. A node is a text node, an <a>
\* element, an <ol> element (kids: its <li>) or an <li> (kids: its contents).
Node(tag, href, text, kids) == [tag |-> tag, href |-> href, text |-> text, kids |-> kids]

TextNode(t) == Node("text", <<>>, t, <<>>)
A(href, t)  == Node("a", href, t, <<>>)
Ol(items)   == Node("ol", <<>>, <<>>, items)
Li(kids)    == Node("li", <<>>, <<>>, kids)

\* None, as returned by find() when nothing is found
None == Node("None", <<>>, <<>>, <<>>)

\* element.find(tag) over a list of sibling nodes: the first element with
\* that tag among the nodes and their descendants, in document order
RECURSIVE FindIn(_, _)
FindIn(nodes, tag) ==
    IF nodes = <<>> THEN None
    ELSE IF Head(nodes).tag = tag THEN Head(nodes)
    ELSE Only({ IF below # None THEN below ELSE FindIn(Tail(nodes), tag)
                : below \in { FindIn(Head(nodes).kids, tag) } })

\* str(node): a text node is its text, an element is its markup
Str(n) ==
    IF n.tag = "text" THEN n.text
    ELSE IF n.tag = "a" THEN <<"<a href=\"">> \o n.href \o <<"\">">> \o n.text \o <<"</a>">>
    ELSE <<"<", n.tag, ">">>

\* str.replace("_", " ")
UnderscoresToSpaces(s) == [k \in 1..Len(s) |-> IF s[k] = "_" THEN " " ELSE s[k]]

\* urljoin(WIKI_BASE_URL, href) of a site-relative path
UrlJoin(base, href) == base \o href

\* The body of the loop of parse_list_items for one <li>, its nested list
\* apart: the item dictionary, or an exception (li.contents[0] of an empty
\* item, link.get of None).
ParseItem(li, depth) ==
    Only({
       IF li.kids = <<>> \/ link = None
       THEN [raised |-> TRUE]
       ELSE LET cont       == Str(li.kids[1])
                text       == Strip(cont)
                href       == link.href
                page_title == UnderscoresToSpaces(href)
                hasLink    == (cont = Str(link))
                url        == IF StartsWith(href, <<"/">>)
                              THEN UrlJoin(WIKI_BASE_URL, href) ELSE href
            IN [raised |-> FALSE,
                item   |-> [title    |-> IF hasLink THEN page_title ELSE text,
                            url      |-> IF hasLink THEN url ELSE <<>>,
                            hasLink  |-> hasLink,
                            depth    |-> depth,
                            children |-> <<>>]]
       : link \in { FindIn(li.kids, "a") } })

\* parse_list_items(ol, depth), given the <li> children of ol
RECURSIVE ParseListItems(_, _), NestedItems(_, _)
ParseListItems(lis, depth) ==
    IF lis = <<>> THEN [raised |-> FALSE, items |-> <<>>]
    ELSE Only({
            IF one.raised \/ kids.raised \/ rest.raised
            THEN [raised |-> TRUE, items |-> <<>>]
            ELSE [raised |-> FALSE,
                  items  |-> <<[one.item EXCEPT !.children = kids.items]>> \o rest.items]
            : one  \in { ParseItem(Head(lis), depth) },
              kids \in { NestedItems(Head(lis), depth) },
              rest \in { ParseListItems(Tail(lis), depth) } })

NestedItemsSameDepth(li, depth) ==
    Only({ IF nested_ol = None THEN [raised |-> FALSE, items |-> <<>>]
           ELSE ParseListItems(nested_ol.kids, depth)
           : nested_ol \in { FindIn(li.kids, "ol") } })

\* the children of an item: parse_list_items on the first <ol> found in it
NestedItems(li, depth) ==
    Only({ IF nested_ol = None THEN [raised |-> FALSE, items |-> <<>>]
           ELSE ParseListItems(nested_ol.kids, depth + 1)
           : nested_ol \in { FindIn(li.kids, "ol") } })

\* ------------------------------------------------------------------------
\* State
\* ------------------------------------------------------------------------

VARIABLES
    \* main(), buildToC(), process_structure()
    outline,    \* the <ol> of the converted table of contents: its <li> items
    toc,        \* parsed_ToC
    pc,         \* where main() is
    stack,      \* the calls of process_structure in progress
    mainFile,   \* what has been written to LaTeX/main.tex
    files,      \* the files of LaTeX/chapters: filename -> content
    log,        \* what the run did, in order (visits, lookups, fetches, writes)
    \* add_examples_to_content(), run on its own
    exBody,     \* the content it was called with
    exStub,     \* the fetch stub: title -> fragment
    content,    \* the local variable content
    flags,      \* per character of content: 1 when a substitution put it there
    matches,    \* the local variable matches
    exIdx,      \* the index of the loop over matches
    exFetched,  \* the titles fetched, in order
    rewrote,    \* a replacement has changed text of an inserted fragment
    exPc        \* "start", "loop", "returned", "raised"

renderVars == <<outline, toc, pc, stack, mainFile, files, log>>
exVars == <<exBody, exStub, content, flags, matches, exIdx, exFetched, rewrote, exPc>>
vars == <<outline, toc, pc, stack, mainFile, files, log,
          exBody, exStub, content, flags, matches, exIdx, exFetched, rewrote, exPc>>

\* ------------------------------------------------------------------------
\* add_examples_to_content run on its own, one loop iteration per step
\* ------------------------------------------------------------------------

TitleA == <<"A">>
TitleB == <<"B">>

\* what a body is made of: plain text, the pieces of the marker syntax, and
\* markers whose title is A, B, or A after a blank
Parts ==
    { <<"x">>, Open, Close, Marker(TitleA), Marker(TitleB), Marker(<<" ", "A">>) }

RECURSIVE BodiesOf(_)
BodiesOf(n) ==
    IF n = 0 THEN { <<>> }
    ELSE BodiesOf(n - 1) \cup { b \o p : b \in BodiesOf(n - 1), p \in Parts }

Bodies == BodiesOf(MaxParts)

\* what a fetch can give: a fragment without marker syntax, a fragment that
\* is the text of the marker of B, or an exception
Fragments == { <<"F">>, Marker(TitleB), Raised }

Stubs == [ {TitleA, TitleB} -> Fragments ]

ExIdle ==
    /\ exBody = <<>> /\ exStub = <<>> /\ content = <<>> /\ flags = <<>>
    /\ matches = <<>> /\ exIdx = 0 /\ exFetched = <<>> /\ rewrote = FALSE
    /\ exPc = "idle"

RenderIdle ==
    /\ outline = <<>> /\ toc = <<>> /\ pc = "idle" /\ stack = <<>>
    /\ mainFile = <<>> /\ files = <<>> /\ log = <<>>

InitEx ==
    /\ exBody \in Bodies
    /\ exStub \in Stubs
    /\ content = exBody
    /\ flags = Flags(exBody, 0)
    /\ matches = <<>>
    /\ exIdx = 0
    /\ exFetched = <<>>
    /\ rewrote = FALSE
    /\ exPc = "start"
    /\ RenderIdle

\* matches = pattern.findall(content)
ExFindAll ==
    /\ exPc = "start"
    /\ matches' = FindAll(content)
    /\ exIdx' = 1
    /\ exPc' = "loop"
    /\ UNCHANGED <<exBody, exStub, content, flags, exFetched, rewrote>>
    /\ UNCHANGED renderVars

\* one iteration of the loop: fetch, then content.replace
ExExpand ==
    /\ exPc = "loop"
    /\ exIdx <= Len(matches)
    /\ \E one \in { ExpandOne(content, flags, matches[exIdx], exStub) } :
          /\ ~one.raised
          /\ content' = one.content
          /\ flags' = one.flags
          /\ rewrote' = (rewrote \/ one.hit)
          /\ exFetched' = Append(exFetched, one.title)
    /\ exIdx' = exIdx + 1
    /\ UNCHANGED <<exBody, exStub, matches, exPc>>
    /\ UNCHANGED renderVars

\* the fetch of an iteration raises: the exception leaves the function
ExRaise ==
    /\ exPc = "loop"
    /\ exIdx <= Len(matches)
    /\ \E one \in { ExpandOne(content, flags, matches[exIdx], exStub) } :
          /\ one.raised
          /\ exFetched' = Append(exFetched, one.title)
    /\ exPc' = "raised"
    /\ UNCHANGED <<exBody, exStub, content, flags, matches, exIdx, rewrote>>
    /\ UNCHANGED renderVars

\* return content
ExReturn ==
    /\ exPc = "loop"
    /\ exIdx > Len(matches)
    /\ exPc' = "returned"
    /\ UNCHANGED <<exBody, exStub, content, flags, matches, exIdx, exFetched, rewrote>>
    /\ UNCHANGED renderVars

NextEx == ExFindAll \/ ExExpand \/ ExRaise \/ ExReturn

SpecEx == InitEx /\ [][NextEx]_vars

\* C6: when no fragment of the stub contains marker syntax, the string
\* add_examples_to_content returns contains no marker {{:title}} any more.
StubMarkerFree == \A t \in DOMAIN exStub : FindAll(exStub[t]) = <<>>

C6_NoMarkerRemains ==
    (exPc = "returned" /\ StubMarkerFree) => FindAll(content) = <<>>

\* C9: expansion is single-level: the fetches are those of the marker
\* occurrences of the original body, one each and in order, and no
\* replacement ever changes text that a substitution has inserted.
OriginalTitles == [k \in 1..Len(FindAll(exBody)) |-> Strip(FindAll(exBody)[k])]

C9_SingleLevel ==
    exPc = "returned" => (exFetched = OriginalTitles /\ ~rewrote)

C9_OneFetchPerOccurrence == exPc = "returned" => exFetched = OriginalTitles


\* ------------------------------------------------------------------------
\* process_structure
\* ------------------------------------------------------------------------

\* the reserved prefix of category pages
Rummad == <<":", "R", "u", "m", "m", "a", "d", ":">>

\* category = ["part", "chapter", "chapter"]
Category == <<"part", "chapter", "chapter">>

\* \w of re: a character that is neither whitespace nor punctuation
IsWord(c) ==
    /\ ~IsSpace(c)
    /\ c \notin {":", "/", "-", "{", "}", ".", "!", "\\", "<", ">", "\""}

\* re.sub(r"[^\w\s-]", "", title)
RECURSIVE StripUnsafe(_)
StripUnsafe(s) ==
    IF s = <<>> THEN <<>>
    ELSE IF IsWord(Head(s)) \/ IsSpace(Head(s)) \/ Head(s) = "-"
    THEN <<Head(s)>> \o StripUnsafe(Tail(s))
    ELSE StripUnsafe(Tail(s))

\* re.sub(r"[-\s]+", "_", s): each run of hyphens and whitespace becomes one "_"
RECURSIVE CollapseRuns(_)
CollapseRuns(s) ==
    IF s = <<>> THEN <<>>
    ELSE IF Head(s) = "-" \/ IsSpace(Head(s))
    THEN IF Len(s) > 1 /\ (s[2] = "-" \/ IsSpace(s[2]))
         THEN CollapseRuns(Tail(s))
         ELSE <<"_">> \o CollapseRuns(Tail(s))
    ELSE <<Head(s)>> \o CollapseRuns(Tail(s))

SafeTitle(title) == CollapseRuns(StripUnsafe(title))

Filename(title) == SafeTitle(title) \o <<".tex">>

\* '  ' * depth
RECURSIVE Indent(_)
Indent(depth) == IF depth = 0 THEN <<>> ELSE <<" ", " ">> \o Indent(depth - 1)

\* f"{'  ' * depth}\\include{{chapters/{safe_title}}}\n"
IncludeLine(item) ==
    Indent(item.depth) \o <<"\\include{chapters/">> \o SafeTitle(item.title)
        \o <<"}", "\n">>

\* f"\\{category[depth]}{{{item['title']}}}\n\n"
Heading(item) ==
    <<"\\", Category[item.depth + 1], "{">> \o item.title \o <<"}", "\n", "\n">>

\* The pages of the exported XML (root): title and text.
Pages ==
    << [title |-> <<"A">>, text |-> <<" ", "x">> \o Marker(<<"E">>)],
       [title |-> <<"Z">>, text |-> <<"y">> \o Marker(<<"Q">>)],
       [title |-> <<"V">>, text |-> <<"!">>] >>

\* The example pages of the wiki: the fetch of Q fails.
Examples == (<<"E">> :> <<"T">>) @@ (<<"Q">> :> Raised)

\* pypandoc.convert_text(wiki_content, "latex", format="mediawiki"): the
\* converter is external. An empty text gives an empty text, a text it
\* cannot read (here one holding "!") raises, and any other text gives
\* LaTeX holding the constructs the post-processing acts on, then the text.
LongtableHead == <<"\\begin{longtable}[]{@{}ll@{}}">>
LongtableNew  == <<"\\begin{longtable}[]{|p{0.45\\textwidth}|p{0.45\\textwidth}}">>
Boilerplate   == <<"\\toprule\\noalign{}\n\\endhead\n\\bottomrule\\noalign{}\n\\endlastfoot">>

ConvertToLatex(text) ==
    IF text = <<>> THEN <<>>
    ELSE IF \E k \in 1..Len(text) : text[k] = "!" THEN Raised
    ELSE <<"\\", "sub", "section", "{", "s", "}">> \o LongtableHead \o Boilerplate
            \o <<"\\url{", "u", "}{", "v", "}">> \o text

\* re.sub(r"\\url\{.+?\}\{(.+?)\}", r"\1", s): each link is replaced by its
\* visible text
RECURSIVE RemoveLinks(_)
RemoveLinks(s) ==
    IF s = <<>> THEN <<>>
    ELSE LET mids == { m \in 3..Len(s) : s[m] = "}{" }
             ends == { e \in 5..Len(s) :
                         s[e] = "}" /\ \E m \in mids : m + 2 <= e }
         IN IF Head(s) = "\\url{" /\ mids # {} /\ ends # {}
            THEN LET m == Min(mids)
                     e == Min({ x \in ends : m + 2 <= x })
                 IN SubSeq(s, m + 1, e - 1) \o RemoveLinks(SubSeq(s, e + 1, Len(s)))
            ELSE <<Head(s)>> \o RemoveLinks(Tail(s))

\* the replacements applied to the converted text, and the one applied when
\* the file is written
PostProcess(latex) ==
    LET tables   == Replace(latex, LongtableHead, LongtableNew)
        stripped == Replace(tables, Boilerplate, <<>>)
        unlinked == RemoveLinks(stripped)
    IN Replace(unlinked, <<"sub", "section">>, <<"section">>)

\* The loop over the pages of root for one item: every page with the
\* item's title gives wiki_content (stripped, then with its examples put in).
RECURSIVE FindContent(_, _, _, _)
FindContent(pages, title, wiki_content, fetched) ==
    IF pages = <<>>
    THEN [raised |-> FALSE, wiki_content |-> wiki_content, fetched |-> fetched]
    ELSE IF Head(pages).title = title
    THEN Only({ IF r.raised
                THEN [raised |-> TRUE, wiki_content |-> wiki_content,
                      fetched |-> fetched \o r.fetched]
                ELSE FindContent(Tail(pages), title, r.content, fetched \o r.fetched)
                : r \in { AddExamplesToContent(Strip(Head(pages).text), Examples) } })
    ELSE FindContent(Tail(pages), title, wiki_content, fetched)

\* an entry of the log
Event(ev, node, arg) == [ev |-> ev, node |-> node, arg |-> arg]

FetchEvents(node, titles) == [k \in 1..Len(titles) |-> Event("fetch", node, titles[k])]

\* The end of the body of the loop of process_structure, from
\* open(filepath, "w") on: the file and the line of the main file. `before`
\* is the log of the item so far.
WriteUnit(item, node, before, latex) ==
    LET filename == Filename(item.title)
    IN IF item.depth + 1 \notin DOMAIN Category
       THEN \* open(filepath, "w") has made the file; category[depth] raises
            [outcome |-> "raised",
             events |-> before \o <<Event("open", node, filename)>>,
             filename |-> filename, written |-> <<>>]
       ELSE [outcome |-> "rendered",
             events |-> before \o << Event("open", node, filename),
                                     Event("unit", node, filename),
                                     Event("line", node, IncludeLine(item)) >>,
             filename |-> filename,
             written |-> Heading(item) \o PostProcess(latex),
             line |-> IncludeLine(item)]

\* the log of an item up to the conversion of its wiki_content
EventsBefore(item, node, found) ==
    <<Event("visit", node, item.title)>>
    \o (IF item.hasLink THEN <<Event("lookup", node, item.title)>> ELSE <<>>)
    \o FetchEvents(node, found.fetched)
    \o (IF item.hasLink THEN <<Event("convert", node, found.wiki_content)>> ELSE <<>>)

RenderFoundKeepsGoing(item, node, found, latex) ==
    WriteUnit(item, node, EventsBefore(item, node, found),
              IF latex = Raised THEN <<>> ELSE latex)

\* What the body of the loop of process_structure does for a linked or
\* unlinked item once its wiki_content is known: the conversion, whose
\* exception ends it, then the file and the line of the main file.
RenderFound(item, node, found, latex) ==
    IF latex = Raised
    THEN [outcome |-> "raised", events |-> EventsBefore(item, node, found)]
    ELSE WriteUnit(item, node, EventsBefore(item, node, found), latex)

\* What the body of the loop of process_structure does for an item that is
\* not passed over, at `node` (its position in the tree), up to and
\* without the recursive call: the exception that ends it if any, the file
\* it writes, the line it writes to the main file, and the log of its
\* steps in order.
RenderAny(item, node) ==
    Only({
        IF found.raised
        THEN [outcome |-> "raised",
              events |-> <<Event("visit", node, item.title),
                           Event("lookup", node, item.title)>>
                            \o FetchEvents(node, found.fetched)]
        ELSE Only({ RenderFound(item, node, found, latex)
                    : latex \in { IF item.hasLink
                                  THEN ConvertToLatex(found.wiki_content) ELSE <<>> } })
        : found \in { IF item.hasLink
                      THEN FindContent(Pages, item.title, <<>>, <<>>)
                      ELSE [raised |-> FALSE, wiki_content |-> <<>>, fetched |-> <<>>] } })

RenderItemNoSkip(item, node) == RenderAny(item, node)

\* The body of the loop of process_structure for one item: an item of the
\* category namespace is passed over, any other is rendered.
RenderItem(item, node) ==
    IF StartsWith(item.title, Rummad)
    THEN [outcome |-> "skipped", events |-> <<Event("visit", node, item.title)>>]
    ELSE RenderAny(item, node)

\* ------------------------------------------------------------------------
\* main()
\* ------------------------------------------------------------------------

Header == <<"\\documentclass{style} ... \\cleardoublepage\n\n">>
Footer == <<"\n\\end{document}\n">>

\* a call of process_structure: its argument, the index of the loop, and the
\* position in the tree of the item whose children it was called on
Frame(structure, idx, node) == [structure |-> structure, idx |-> idx, node |-> node]

Top == stack[Len(stack)]
Current == Top.structure[Top.idx]
CurrentNode == Append(Top.node, Top.idx)
InLoop == pc = "render" /\ stack # <<>> /\ Top.idx <= Len(Top.structure)

\* stack with the loop index of the running call moved on
Advanced == [stack EXCEPT ![Len(stack)].idx = @ + 1]

StackAfterRenderNoChildren == Advanced

\* stack once an item is rendered: process_structure is called on its
\* children if it has any, and the loop goes on when that call returns
StackAfterRender ==
    IF Current.children # <<>>
    THEN Append(Advanced, Frame(Current.children, 1, CurrentNode))
    ELSE Advanced

\* toc = buildToC(root): the outline parses
BuildToC ==
    /\ pc = "buildToC"
    /\ \E r \in { ParseListItems(outline, 0) } :
          /\ ~r.raised
          /\ toc' = r.items
    /\ pc' = "openMain"
    /\ UNCHANGED <<outline, stack, mainFile, files, log>>
    /\ UNCHANGED exVars

\* toc = buildToC(root): parse_list_items raises, and main() ends there
BuildToCRaise ==
    /\ pc = "buildToC"
    /\ ParseListItems(outline, 0).raised
    /\ pc' = "failed"
    /\ UNCHANGED <<outline, toc, stack, mainFile, files, log>>
    /\ UNCHANGED exVars

\* the main file is opened, its head written, process_structure called
OpenMain ==
    /\ pc = "openMain"
    /\ mainFile' = <<Header>>
    /\ stack' = <<Frame(toc, 1, <<>>)>>
    /\ pc' = "render"
    /\ UNCHANGED <<outline, toc, files, log>>
    /\ UNCHANGED exVars

\* an item of the category namespace: continue
SkipCategory ==
    /\ InLoop
    /\ \E r \in { RenderItem(Current, CurrentNode) } :
          /\ r.outcome = "skipped"
          /\ log' = log \o r.events
    /\ stack' = Advanced
    /\ UNCHANGED <<outline, toc, pc, mainFile, files>>
    /\ UNCHANGED exVars

\* an item is rendered: its file, its line of the main file, then the call
\* on its children if it has any
Render ==
    /\ InLoop
    /\ \E r \in { RenderItem(Current, CurrentNode) } :
          /\ r.outcome = "rendered"
          /\ log' = log \o r.events
          /\ files' = (r.filename :> r.written) @@ files
          /\ mainFile' = Append(mainFile, r.line)
    /\ stack' = StackAfterRender
    /\ UNCHANGED <<outline, toc, pc>>
    /\ UNCHANGED exVars

\* a fetch or the conversion raises: the exception leaves main()
RaiseInContent ==
    /\ InLoop
    /\ \E r \in { RenderItem(Current, CurrentNode) } :
          /\ r.outcome = "raised"
          /\ "filename" \notin DOMAIN r
          /\ log' = log \o r.events
    /\ pc' = "failed"
    /\ UNCHANGED <<outline, toc, stack, mainFile, files>>
    /\ UNCHANGED exVars

\* category[depth] raises once the file is open: the file is left empty
RaiseInHeading ==
    /\ InLoop
    /\ \E r \in { RenderItem(Current, CurrentNode) } :
          /\ r.outcome = "raised"
          /\ "filename" \in DOMAIN r
          /\ log' = log \o r.events
          /\ files' = (r.filename :> r.written) @@ files
    /\ pc' = "failed"
    /\ UNCHANGED <<outline, toc, stack, mainFile>>
    /\ UNCHANGED exVars

\* the loop of a call on children is over: return None
Return ==
    /\ pc = "render"
    /\ Len(stack) > 1
    /\ Top.idx > Len(Top.structure)
    /\ stack' = SubSeq(stack, 1, Len(stack) - 1)
    /\ UNCHANGED <<outline, toc, pc, mainFile, files, log>>
    /\ UNCHANGED exVars

\* the call on toc returns: the end of the main file is written
Finish ==
    /\ pc = "render"
    /\ Len(stack) = 1
    /\ Top.idx > Len(Top.structure)
    /\ stack' = <<>>
    /\ mainFile' = Append(mainFile, Footer)
    /\ pc' = "done"
    /\ UNCHANGED <<outline, toc, files, log>>
    /\ UNCHANGED exVars


\* ------------------------------------------------------------------------
\* The outlines
\* ------------------------------------------------------------------------

\* What an <li> holds before its nested list, if any.
LinkA        == << A(<<"A">>, <<"A">>) >>
LinkMissing  == << A(<<"/", "w", "/", "M", "_", "x">>, <<"M", " ", "x">>) >>
LinkCategory == << A(Rummad \o <<"C">>, <<"C">>) >>
LinkZ        == << A(<<"Z">>, <<"Z">>) >>
LinkV        == << A(<<"V">>, <<"V">>) >>
TextOnly     == << TextNode(<<"P", "\n">>) >>
TextThenLink == << TextNode(<<"P", " ">>), A(<<"A">>, <<"A">>) >>
LinkThenText == << A(<<"A">>, <<"A">>), TextNode(<<" ", "t">>) >>

Heads ==
    [ LinkA        |-> LinkA,
      LinkMissing  |-> LinkMissing,
      LinkCategory |-> LinkCategory,
      LinkZ        |-> LinkZ,
      LinkV        |-> LinkV,
      TextOnly     |-> TextOnly,
      TextThenLink |-> TextThenLink,
      LinkThenText |-> LinkThenText ]

\* The lines of the table of contents page: for each list item, in order,
\* its level of nesting and what it holds. A level is at most one more than
\* that of the line before, and the first is 0.
RECURSIVE LevelsOf(_)
LevelsOf(n) ==
    IF n = 1 THEN { <<0>> }
    ELSE { Append(l, d) : l \in LevelsOf(n - 1), d \in 0..(n - 1) }

Levels(n) == { l \in LevelsOf(n) : \A k \in 2..n : l[k] <= l[k - 1] + 1 }

\* the sequences of n heads: s of them of `special`, the others of `base`
RECURSIVE HeadsOf(_, _, _, _)
HeadsOf(n, s, base, special) ==
    IF n = 0 THEN (IF s = 0 THEN { <<>> } ELSE {})
    ELSE { Append(h, x) : h \in HeadsOf(n - 1, s, base, special), x \in base }
         \cup
         (IF s = 0 THEN {}
          ELSE { Append(h, x) : h \in HeadsOf(n - 1, s - 1, base, special), x \in special })

\* the first line after the first that is not nested below the first
NextSibling(levels) ==
    Min({ k \in 2..(Len(levels) + 1) : k = Len(levels) + 1 \/ levels[k] <= levels[1] })

\* the <li> with that head and that nested list
Item(head, sub) == Li(IF sub = <<>> THEN head ELSE head \o <<Ol(sub)>>)

\* pypandoc.convert_text(tocMDstr, "html", format="mediawiki") and
\* BeautifulSoup(...).find("ol"): the <li> of the list these lines make
RECURSIVE HtmlList(_, _)
HtmlList(levels, heads) ==
    IF levels = <<>> THEN <<>>
    ELSE Only({ << Item(Heads[heads[1]],
                        HtmlList(SubSeq(levels, 2, k - 1), SubSeq(heads, 2, k - 1))) >>
                \o HtmlList(SubSeq(levels, k, Len(levels)), SubSeq(heads, k, Len(heads)))
                : k \in { NextSibling(levels) } })

SmallerOf(a, b) == IF a < b THEN a ELSE b

\* the heads of the outlines main() is run on
RenderHeads(n) ==
    UNION { HeadsOf(n, s, {"LinkA"},
                    {"LinkMissing", "LinkCategory", "LinkZ", "LinkV", "TextOnly"})
            : s \in 0..SmallerOf(n, MaxSpecial) }

\* the heads of the outlines parse_list_items is run on
ParseHeads(n) ==
    HeadsOf(n, 0, {"LinkA", "LinkMissing", "LinkCategory", "TextOnly",
                   "TextThenLink", "LinkThenText"}, {})

\* ------------------------------------------------------------------------
\* Specifications
\* ------------------------------------------------------------------------

\* main(), from the call of buildToC on
Init ==
    /\ \E n \in 1..MaxNodes : \E levels \in Levels(n) : \E heads \in RenderHeads(n) :
          outline = HtmlList(levels, heads)
    /\ toc = <<>>
    /\ pc = "buildToC"
    /\ stack = <<>>
    /\ mainFile = <<>>
    /\ files = <<>>
    /\ log = <<>>
    /\ ExIdle

Next ==
    \/ BuildToC
    \/ BuildToCRaise
    \/ OpenMain
    \/ SkipCategory
    \/ Render
    \/ RaiseInContent
    \/ RaiseInHeading
    \/ Return
    \/ Finish

Spec == Init /\ [][Next]_vars

\* parse_list_items alone
InitToC ==
    /\ \E n \in 1..MaxItems : \E levels \in Levels(n) : \E heads \in ParseHeads(n) :
          outline = HtmlList(levels, heads)
    /\ toc = <<>>
    /\ pc = "buildToC"
    /\ stack = <<>>
    /\ mainFile = <<>>
    /\ files = <<>>
    /\ log = <<>>
    /\ ExIdle

NextToC == BuildToC \/ BuildToCRaise

SpecToC == InitToC /\ [][NextToC]_vars


\* ------------------------------------------------------------------------
\* The tree and the log, as the properties speak of them
\* ------------------------------------------------------------------------

\* A node of the tree is named by its position: the indices from the root.
RECURSIVE NodeAt(_, _)
NodeAt(nodes, path) ==
    IF Len(path) = 1 THEN nodes[path[1]]
    ELSE NodeAt(nodes[path[1]].children, Tail(path))

IsPrefix(a, b) == Len(a) <= Len(b) /\ SubSeq(b, 1, Len(a)) = a

\* q lies below p in the tree
Below(q, p) == Len(p) < Len(q) /\ IsPrefix(p, q)

IsCategory(item) == StartsWith(item.title, Rummad)

\* the positions of the nodes in pre-order: a node, then its children, then
\* its next sibling
RECURSIVE PreOrderFrom(_, _, _)
PreOrderFrom(nodes, parent, i) ==
    IF i > Len(nodes) THEN <<>>
    ELSE <<Append(parent, i)>>
         \o PreOrderFrom(nodes[i].children, Append(parent, i), 1)
         \o PreOrderFrom(nodes, parent, i + 1)

PreOrder == PreOrderFrom(toc, <<>>, 1)

\* a node is left out when it, or a node above it, is a category page
LeftOut(path) ==
    \E k \in 1..Len(path) : IsCategory(NodeAt(toc, SubSeq(path, 1, k)))

IsKept(path) == ~LeftOut(path)

\* the pre-order of the nodes that are not left out
Expected == SelectSeq(PreOrder, IsKept)

IsLine(e)  == e.ev = "line"
IsVisit(e) == e.ev = "visit"
IsInclude(w) == w # Header /\ w # Footer

NodesOf(events) == [k \in 1..Len(events) |-> events[k].node]

\* the nodes whose line was written, in the order of writing
Rendered == NodesOf(SelectSeq(log, IsLine))

\* the lines of the main file that include a chapter
ManifestLines == SelectSeq(mainFile, IsInclude)

RECURSIVE LeadingSpaces(_)
LeadingSpaces(line) ==
    IF line # <<>> /\ Head(line) = " " THEN 1 + LeadingSpaces(Tail(line)) ELSE 0

\* the position of path in a sequence of paths without repetition (0: none)
IndexOf(seq, path) ==
    IF \E k \in 1..Len(seq) : seq[k] = path
    THEN CHOOSE k \in 1..Len(seq) : seq[k] = path
    ELSE 0

\* ------------------------------------------------------------------------
\* C1
\* ------------------------------------------------------------------------

\* C1: the lines written to the main file are, in order, those of the nodes
\* that are not left out, taken in pre-order: at any time the nodes written
\* so far are the first of that order, each once, and all of them once
\* process_structure has returned; the line of a node starts with 2 * depth
\* blanks followed by the include of its file.
C1_ManifestPreOrder ==
    /\ IsPrefix(Rendered, Expected)
    /\ Len(ManifestLines) = Len(Rendered)
    /\ \A k \in 1..Len(ManifestLines) :
          LET item == NodeAt(toc, Rendered[k])
              line == ManifestLines[k]
          IN /\ LeadingSpaces(line) = 2 * item.depth
             /\ SubSeq(line, 2 * item.depth + 1, Len(line))
                   = <<"\\include{chapters/">> \o SafeTitle(item.title) \o <<"}", "\n">>
    /\ pc = "done" => Rendered = Expected

\* the run of a tree [A[B, C], D] is over: four lines, B and C indented
C1_Witness ==
    /\ pc = "done"
    /\ Len(toc) = 2 /\ Len(toc[1].children) = 2 /\ toc[2].children = <<>>
    /\ Rendered = << <<1>>, <<1, 1>>, <<1, 2>>, <<2>> >>
    /\ LeadingSpaces(ManifestLines[2]) = 2
    /\ LeadingSpaces(ManifestLines[4]) = 0

\* ------------------------------------------------------------------------
\* C2
\* ------------------------------------------------------------------------

\* the node that follows path among the children of the same parent
NextSiblingOf(path) == [path EXCEPT ![Len(path)] = @ + 1]

HasNextSibling(path) == IndexOf(PreOrder, NextSiblingOf(path)) # 0

\* C2: a category node is visited and nothing more (no lookup, no fetch, no
\* conversion, no file, no line), nothing at all is done for a node below
\* it, and the loop goes on with its next sibling.
C2_CategorySkipped ==
    /\ \A k \in 1..Len(log) :
          LeftOut(log[k].node) =>
              /\ IsCategory(NodeAt(toc, log[k].node))
              /\ log[k].ev = "visit"
    /\ \A k \in 1..Len(log) :
          (log[k].ev = "visit" /\ IsCategory(NodeAt(toc, log[k].node))
              /\ HasNextSibling(log[k].node)) =>
              IF k = Len(log)
              THEN InLoop /\ CurrentNode = NextSiblingOf(log[k].node)
              ELSE log[k + 1] = Event("visit", NextSiblingOf(log[k].node),
                                      NodeAt(toc, NextSiblingOf(log[k].node)).title)
    /\ \A path \in { PreOrder[k] : k \in 1..Len(PreOrder) } :
          IsCategory(NodeAt(toc, path)) =>
              Filename(NodeAt(toc, path).title) \notin DOMAIN files

\* a category node with a child has been passed and its next sibling rendered
C2_Witness ==
    \E k \in 1..Len(log) :
        /\ log[k].ev = "visit"
        /\ IsCategory(NodeAt(toc, log[k].node))
        /\ NodeAt(toc, log[k].node).children # <<>>
        /\ \E j \in 1..Len(Rendered) : Rendered[j] = NextSiblingOf(log[k].node)


\* ------------------------------------------------------------------------
\* C3, C4, C5: the outline and the tree parsed from it
\* ------------------------------------------------------------------------

IsOl(n)    == n.tag = "ol"
IsNotOl(n) == n.tag # "ol"

\* what an <li> displays: its contents without its nested list
OwnContent(li) == SelectSeq(li.kids, IsNotOl)

\* the <li> of the list nested in an <li>
SubItems(li) ==
    IF SelectSeq(li.kids, IsOl) = <<>> THEN <<>> ELSE SelectSeq(li.kids, IsOl)[1].kids

\* the titles an item can give its node: its text, or the target of its link
TitlesOf(li) ==
    { Strip(OwnContent(li)[k].text) : k \in { j \in 1..Len(OwnContent(li)) :
                                                OwnContent(li)[j].tag = "text" } }
    \cup
    { UnderscoresToSpaces(OwnContent(li)[k].href) :
        k \in { j \in 1..Len(OwnContent(li)) : OwnContent(li)[j].tag = "a" } }

\* nodes are, in order and level by level, the nodes of the items lis
RECURSIVE SameShape(_, _, _)
SameShape(lis, nodes, depth) ==
    /\ Len(lis) = Len(nodes)
    /\ \A k \in 1..Len(lis) :
          /\ nodes[k].depth = depth
          /\ nodes[k].title \in TitlesOf(lis[k])
          /\ SameShape(SubItems(lis[k]), nodes[k].children, depth + 1)

\* the pairs of an item and the node parsed from it
RECURSIVE Pairs(_, _)
Pairs(lis, nodes) ==
    IF Len(lis) # Len(nodes) THEN {}
    ELSE UNION { { <<lis[k], nodes[k]>> } \cup Pairs(SubItems(lis[k]), nodes[k].children)
                 : k \in 1..Len(lis) }

RECURSIVE AllItems(_)
AllItems(lis) ==
    UNION { { lis[k] } \cup AllItems(SubItems(lis[k])) : k \in 1..Len(lis) }

\* C3: the nodes parse_list_items returns are those of the list items, in
\* the order of the items at each level of nesting; the nodes of the top
\* level have depth 0 and a child has the depth of its parent plus 1.
C3_OrderAndDepth == pc = "openMain" => SameShape(outline, toc, 0)

\* a parsed outline with two different items at one level, one with a child
C3_Witness ==
    /\ pc = "openMain"
    /\ Len(toc) >= 2
    /\ toc[1].title # toc[2].title
    /\ \E k \in 1..Len(toc) : toc[k].children # <<>>

\* an item that displays text and no link
IsPlainText(li) ==
    /\ OwnContent(li) # <<>>
    /\ \A k \in 1..Len(OwnContent(li)) : OwnContent(li)[k].tag = "text"

\* C4: an item that is plain text, without a link, gives a node that has
\* no link, an empty url and the text of the item as its title, and
\* parse_list_items does not raise on it.
C4_PlainTextItem ==
    pc # "buildToC" =>
        /\ (\E li \in AllItems(outline) : IsPlainText(li)) => pc # "failed"
        /\ \A pair \in Pairs(outline, toc) :
              IsPlainText(pair[1]) =>
                  /\ pair[2].hasLink = FALSE
                  /\ pair[2].url = <<>>
                  /\ pair[2].title = Strip(OwnContent(pair[1])[1].text)

\* an item that displays one link and nothing else
IsLinkOnly(li) == Len(OwnContent(li)) = 1 /\ OwnContent(li)[1].tag = "a"

\* C5: a node has a link exactly when its item displays one link and
\* nothing else; then its url is not empty and its title is the target of
\* the link with underscores as blanks; an item with text before or after
\* a link gives a node without a link and with an empty url.
C5_LinkOnlyIff ==
    pc = "openMain" =>
        \A pair \in Pairs(outline, toc) :
            /\ pair[2].hasLink <=> IsLinkOnly(pair[1])
            /\ IsLinkOnly(pair[1]) =>
                  /\ pair[2].url # <<>>
                  /\ pair[2].title = UnderscoresToSpaces(OwnContent(pair[1])[1].href)
            /\ ~IsLinkOnly(pair[1]) => pair[2].url = <<>>

\* ------------------------------------------------------------------------
\* C7, C8, C10: what process_structure does with one node
\* ------------------------------------------------------------------------

\* the page of that title is in the export
InStore(title) == \E k \in 1..Len(Pages) : Pages[k].title = title

\* the entries of the log about the node visited at entry k: from k to the
\* next visit
LastOfVisit(k) ==
    Min({ j \in k..Len(log) : j = Len(log) \/ log[j + 1].ev = "visit" })

EventsOfVisit(k) == SubSeq(log, k, LastOfVisit(k))

Kinds(events) == [k \in 1..Len(events) |-> events[k].ev]

\* C7: a linked node that is not a category page and whose title is not in
\* the export raises nothing: no fetch is made, the conversion is given an
\* empty text, the file holds the heading and an empty body, the line is
\* written, and the run goes on.
C7_MissingPageEmptyBody ==
    \A k \in 1..Len(log) :
        LET item == NodeAt(toc, log[k].node)
        IN (log[k].ev = "visit" /\ item.hasLink /\ ~IsCategory(item)
               /\ ~InStore(item.title)) =>
              /\ Kinds(EventsOfVisit(k)) = <<"visit", "lookup", "convert", "open", "unit", "line">>
              /\ log[k + 2].arg = <<>>
              /\ LastOfVisit(k) = Len(log) =>
                    /\ pc # "failed"
                    /\ files[Filename(item.title)]
                          = <<"\\", IF item.depth = 0 THEN "part" ELSE "chapter", "{">>
                               \o item.title \o <<"}", "\n", "\n">>

\* C8: the file of a node holds the heading command part at depth 0 and
\* chapter at any depth from 1 on, and writing it never fails: once the
\* file of a node is open, the file is written.
C8_HeadingByDepth ==
    \A k \in 1..Len(log) :
        log[k].ev = "open" =>
            /\ k < Len(log)
            /\ log[k + 1].ev = "unit"
            /\ LastOfVisit(k) = Len(log) =>
                  LET item == NodeAt(toc, log[k].node)
                      file == files[log[k].arg]
                  IN /\ Len(file) >= 2
                     /\ file[2] = IF item.depth = 0 THEN "part" ELSE "chapter"

\* the fetch or the conversion of entry e of the log fails
Fails(e) ==
    \/ e.ev = "fetch" /\ FetchExample(Examples, e.arg) = Raised
    \/ e.ev = "convert" /\ ConvertToLatex(e.arg) = Raised

\* the nodes that come before path in pre-order and are not left out
KeptBefore(path) ==
    SelectSeq(SubSeq(PreOrder, 1, IndexOf(PreOrder, path) - 1), IsKept)

\* C10: a fetch or a conversion that fails for node N ends the run at N:
\* nothing is opened or written for N, nothing is done for a node after N,
\* the main file holds the lines of the nodes before N that are not left
\* out, in pre-order, and is not closed with its end; and the line of a
\* node is only ever written right after its file.
C10_AbortAtFailure ==
    /\ \A k \in 1..Len(log) :
          Fails(log[k]) =>
              /\ k = Len(log)
              /\ pc = "failed"
              /\ \A j \in 1..Len(log) :
                    log[j].node = log[k].node => log[j].ev \notin {"open", "unit", "line"}
              /\ \A j \in 1..Len(log) :
                    IndexOf(PreOrder, log[j].node) <= IndexOf(PreOrder, log[k].node)
              /\ Rendered = KeptBefore(log[k].node)
              /\ mainFile = <<Header>> \o
                    [j \in 1..Len(Rendered) |-> IncludeLine(NodeAt(toc, Rendered[j]))]
    /\ \A k \in 1..Len(log) :
          log[k].ev = "line" =>
              /\ k > 1
              /\ log[k - 1] = Event("unit", log[k].node, Filename(NodeAt(toc, log[k].node).title))
              /\ Filename(NodeAt(toc, log[k].node).title) \in DOMAIN files

\* a fetch has failed for a node that comes after rendered nodes
C10_Witness ==
    /\ pc = "failed"
    /\ log # <<>>
    /\ log[Len(log)].ev = "fetch"
    /\ Fails(log[Len(log)])
    /\ Len(ManifestLines) >= 2

\* the same for a conversion
C10_WitnessConvert ==
    /\ pc = "failed"
    /\ log # <<>>
    /\ log[Len(log)].ev = "convert"
    /\ Fails(log[Len(log)])
    /\ Len(ManifestLines) >= 2


\* the part of C7 that holds: the same for the nodes whose depth has a
\* heading command in category
C7_ShallowMissingPage ==
    \A k \in 1..Len(log) :
        LET item == NodeAt(toc, log[k].node)
        IN (log[k].ev = "visit" /\ item.hasLink /\ ~IsCategory(item)
               /\ ~InStore(item.title) /\ item.depth < Len(Category)) =>
              /\ Kinds(EventsOfVisit(k)) = <<"visit", "lookup", "convert", "open", "unit", "line">>
              /\ log[k + 2].arg = <<>>

====
